---- MODULE Spec2Model ----
(***************************************************************************)
(* Verfassungsbooks-Exchange-Lib: the framed transport (send_message,      *)
(* read_message), the directory-tree codec (recursive_read_dir_async,      *)
(* recursive_write_dir_async, TemplateContents) and the value conversions  *)
(* of projects.rs (ProjectSettingsV3 -> V4, License -> PreparedLicense).   *)
(*                                                                         *)
(* Three specifications share the module:                                  *)
(*   Spec      one connection: a sender task and a reader task             *)
(*   SpecTree  one source directory, one destination, the tree codec       *)
(*   SpecConv  the pure conversions applied to bounded inputs              *)
(***************************************************************************)
EXTENDS Integers, Sequences, FiniteSets, TLC

VARIABLES
    \* ---- framed transport (src/src/lib.rs:235-307)
    sPc,        \* position of the send_message call: "idle" | "len" | "payload"
    sMsg,       \* the message of the call in progress
    sEnc,       \* its encoding (encoded_msg)
    sOff,       \* payload bytes already written by write_all
    sBytes,     \* every byte the call in progress has put on the stream
    sends,      \* finished send_message calls: [msg, res, bytes]
    connOpen,   \* the write half is usable (no write error, not closed)
    wire,       \* bytes written and not yet read (ordered, reliable stream)
    rPc,        \* position of the read_message call: "idle" | "len" | "payload"
    rLenBuf,    \* bytes read so far by read_u64
    rLen,       \* len
    rBuf,       \* the filled part of buf
    reads,      \* finished read_message calls
    rPos,       \* bytes that have left the stream on the reading side
    rMarks,     \* rPos at the return of each finished read_message call
    \* ---- directory-tree codec (src/src/lib.rs:40-113)
    fs,         \* the file system: path -> node
    fs0,        \* the file system before the first operation
    tPc,        \* "start" | "read" | "done"
    tree,       \* TemplateContents.contents once from_path returned Ok
    readBad,    \* the I/O fault the read met, if any: a set of <<operation, path>>
    readRes,    \* result of from_path: "none" | "Ok" | "Err"
    via,        \* entry point of the write: "none" | "to_file" | "direct"
    writeRes,   \* its result: "none" | "Ok" | "Err" | "Panic"
    oplog,      \* file-system operations of the write: <<op, path, outcome, content>>
    tree2,      \* the destination read back with from_path
    \* ---- value conversions (src/src/projects.rs)
    settingsIn,   \* a ProjectSettingsV3 value
    settingsOut,  \* ProjectSettingsV4::from(settingsIn), once converted
    licenseIn,    \* a License value
    licenseOut    \* PreparedLicense::from(licenseIn), once converted

netVars == <<sPc, sMsg, sEnc, sOff, sBytes, sends, connOpen, wire,
             rPc, rLenBuf, rLen, rBuf, reads, rPos, rMarks>>

treeVars == <<fs, fs0, tPc, tree, readBad, readRes, via, writeRes, oplog, tree2>>

convVars == <<settingsIn, settingsOut, licenseIn, licenseOut>>

vars == <<netVars, treeVars, convVars>>

----------------------------------------------------------------------------
(* Bounds of the model *)

MaxSends == 2
MaxReads == 2
\* write_all hands the stream at most MaxChunk bytes at a time.
MaxChunk == 4
\* read_u64 values at or above LenCap are kept as LenCap: no stream of the
\* model ever holds that many bytes.
LenCap == 1048576

Min(a, b) == IF a <= b THEN a ELSE b

----------------------------------------------------------------------------
(* bincode, standard configuration: variable-width integers, length-       *)
(* prefixed strings and sequences, enums by variant index.                 *)

\* u64/usize/u32 as a varint: one byte below 251.
EncVarint(n) == <<n>>

EncBytes(s) == EncVarint(Len(s)) \o s

\* The model's text is ASCII, plus the byte 255 that no UTF-8 text holds.
IsUtf8(s) == \A i \in 1..Len(s) : s[i] < 128

EncOk(b) == [ok |-> TRUE, bytes |-> b]
EncErr == [ok |-> FALSE, bytes |-> <<>>]

\* Path -> EncodeError::InvalidPathCharacters unless it is valid text.
EncPath(p) == IF IsUtf8(p) THEN EncOk(EncBytes(p)) ELSE EncErr

\* A field after a prefix, two fields in a row: the first error ends the encoding.
EncAfter(prefix, e) == IF e.ok THEN EncOk(prefix \o e.bytes) ELSE EncErr
EncBoth(a, b) == IF a.ok /\ b.ok THEN EncOk(a.bytes \o b.bytes) ELSE EncErr

RenderingStatusUnit ==
    <<"QueuedOnLocal", "PreparingOnLocal", "PreparedOnLocal", "SendToRenderingServer",
      "RequestingTemplate", "TransmittingTemplate", "QueuedOnRendering", "Running">>

RenderingErrorVariants ==
    <<"ProjectNotFound", "ProjectMetadataMissing", "ConnectionToRenderingServerFailed",
      "TemplateNotFound", "CommunicationError", "CouldntLoadHandlebarTemplates",
      "HandlebarsRenderingFailed", "MissingExpectedFileToKeep",
      "VivliostyleRenderingFailed", "PandocConversionFailed", "NoResultFiles", "Other">>

\* Number of String fields of each RenderingError variant.
RenderingErrorArity == <<0, 0, 0, 0, 0, 1, 1, 2, 1, 1, 0, 1>>

CommunicationErrorVariants == <<"UnexpectedMessageType", "WrongTemplateDataSend">>

IndexOf(seq, x) == CHOOSE i \in 1..Len(seq) : seq[i] = x

RECURSIVE EncStrings(_)
EncStrings(ss) == IF ss = <<>> THEN <<>> ELSE EncBytes(Head(ss)) \o EncStrings(Tail(ss))

\* Vec<NamedFile>: each file is <<name, content>>.
RECURSIVE EncFiles(_)
EncFiles(files) ==
    IF files = <<>> THEN <<>>
    ELSE EncBytes(Head(files)[1]) \o EncBytes(Head(files)[2]) \o EncFiles(Tail(files))

\* RenderingError is <<variant, strings>>.
EncRenderingError(e) ==
    EncVarint(IndexOf(RenderingErrorVariants, e[1]) - 1) \o EncStrings(e[2])

EncRenderingStatus(st) ==
    CASE st[1] = "Finished" -> EncOk(EncVarint(8) \o EncVarint(Len(st[2])) \o EncFiles(st[2]))
      [] st[1] = "SavedOnLocal" -> EncAfter(EncVarint(9), EncBoth(EncPath(st[2]), EncPath(st[3])))
      [] st[1] = "Failed" -> EncOk(EncVarint(10) \o EncRenderingError(st[2]))
      [] OTHER -> EncOk(EncVarint(IndexOf(RenderingStatusUnit, st[1]) - 1))

\* bincode::encode_to_vec(message, standard()) for the variants of Message the
\* model sends.
Encode(m) ==
    CASE m[1] = "RenderingRequestStatus" ->
            EncAfter(EncVarint(3), EncRenderingStatus(m[2]))
      [] m[1] = "CommunicationError" ->
            EncOk(EncVarint(4) \o EncVarint(IndexOf(CommunicationErrorVariants, m[2]) - 1))
      [] m[1] = "UnexpectedError" -> EncOk(EncVarint(5) \o EncBytes(m[2]))

----------------------------------------------------------------------------
(* Decoding: a parser over (buffer, position); a result is                 *)
(* [ok, val, next].                                                        *)

PFail == [ok |-> FALSE, val |-> <<>>, next |-> 0]
POk(v, n) == [ok |-> TRUE, val |-> v, next |-> n]

\* A byte below 251 is the value; 251..254 announce a wider integer, which no
\* stream of the model holds, and 255 is reserved.
ParseVarint(b, p) ==
    IF p > Len(b) THEN PFail
    ELSE IF b[p] < 251 THEN POk(b[p], p + 1) ELSE PFail

ParseBytesAt(b, n) ==
    IF ~n.ok THEN PFail
    ELSE IF n.next + n.val - 1 > Len(b) THEN PFail
    ELSE POk(SubSeq(b, n.next, n.next + n.val - 1), n.next + n.val)

\* Vec<u8>: the length, then that many bytes.
ParseBytes(b, p) == ParseBytesAt(b, ParseVarint(b, p))

Utf8Only(s) == IF s.ok /\ IsUtf8(s.val) THEN s ELSE PFail

\* String, and PathBuf through it: the bytes must be valid text.
ParseString(b, p) == Utf8Only(ParseBytes(b, p))

Prepend(v, r) == IF r.ok THEN POk(<<v>> \o r.val, r.next) ELSE PFail

Tagged(tag, r) == IF r.ok THEN POk(<<tag, r.val>>, r.next) ELSE PFail

\* k String fields in a row.
RECURSIVE ParseStrings(_, _, _)
RECURSIVE ParseStringsFrom(_, _, _)
ParseStringsFrom(b, s, k) ==
    IF ~s.ok THEN PFail ELSE Prepend(s.val, ParseStrings(b, s.next, k - 1))

ParseStrings(b, p, k) ==
    IF k = 0 THEN POk(<<>>, p) ELSE ParseStringsFrom(b, ParseString(b, p), k)

\* k NamedFile values: name, then content.
RECURSIVE ParseFiles(_, _, _)
RECURSIVE ParseFileContent(_, _, _, _)
RECURSIVE ParseFileName(_, _, _)
ParseFileContent(b, name, c, k) ==
    IF ~c.ok THEN PFail ELSE Prepend(<<name, c.val>>, ParseFiles(b, c.next, k - 1))

ParseFileName(b, name, k) ==
    IF ~name.ok THEN PFail
    ELSE ParseFileContent(b, name.val, ParseBytes(b, name.next), k)

ParseFiles(b, p, k) ==
    IF k = 0 THEN POk(<<>>, p) ELSE ParseFileName(b, ParseString(b, p), k)

ParseFileVec(b, n) == IF ~n.ok THEN PFail ELSE ParseFiles(b, n.next, n.val)

ParseRenderingErrorAt(b, v) ==
    IF ~v.ok \/ v.val >= Len(RenderingErrorVariants) THEN PFail
    ELSE Tagged(RenderingErrorVariants[v.val + 1],
                ParseStrings(b, v.next, RenderingErrorArity[v.val + 1]))

ParseRenderingError(b, p) == ParseRenderingErrorAt(b, ParseVarint(b, p))

SavedOnLocalOf(ps) ==
    IF ps.ok THEN POk(<<"SavedOnLocal", ps.val[1], ps.val[2]>>, ps.next) ELSE PFail

ParseRenderingStatusAt(b, v) ==
    IF ~v.ok THEN PFail
    ELSE IF v.val < 8 THEN POk(<<RenderingStatusUnit[v.val + 1]>>, v.next)
    ELSE IF v.val = 8 THEN Tagged("Finished", ParseFileVec(b, ParseVarint(b, v.next)))
    ELSE IF v.val = 9 THEN SavedOnLocalOf(ParseStrings(b, v.next, 2))
    ELSE IF v.val = 10 THEN Tagged("Failed", ParseRenderingError(b, v.next))
    ELSE PFail

ParseRenderingStatus(b, p) == ParseRenderingStatusAt(b, ParseVarint(b, p))

ParseCommunicationErrorAt(c) ==
    IF c.ok /\ c.val < Len(CommunicationErrorVariants)
    THEN POk(CommunicationErrorVariants[c.val + 1], c.next)
    ELSE PFail

\* The Message variants by index.  The variants 0..2 (RenderingRequest,
\* TemplateDataRequest, TemplateDataResult) begin with a 17-byte identifier;
\* every buffer of the model is shorter, so they end in UnexpectedEnd.
ParseMessageAt(b, v) ==
    IF ~v.ok THEN PFail
    ELSE IF v.val = 3 THEN Tagged("RenderingRequestStatus", ParseRenderingStatus(b, v.next))
    ELSE IF v.val = 4
    THEN Tagged("CommunicationError", ParseCommunicationErrorAt(ParseVarint(b, v.next)))
    ELSE IF v.val = 5 THEN Tagged("UnexpectedError", ParseString(b, v.next))
    ELSE PFail

Used(r) == IF r.ok THEN POk(r.val, r.next - 1) ELSE PFail

\* bincode::decode_from_slice(&buf, standard()): the message and the number of
\* bytes used; bytes after the message are not looked at.
Decode(b) == Used(ParseMessageAt(b, ParseVarint(b, 1)))

----------------------------------------------------------------------------
(* The messages the sender task is given. *)

Messages ==
    { <<"CommunicationError", "WrongTemplateDataSend">>,
      <<"UnexpectedError", <<97>>>>,
      <<"RenderingRequestStatus", <<"Running">>>>,
      <<"RenderingRequestStatus", <<"Failed", <<"Other", <<<<>>>>>>>>>>,
      <<"RenderingRequestStatus", <<"SavedOnLocal", <<>>, <<255>>>>>> }

----------------------------------------------------------------------------
(* tokio's write_u64 / read_u64: eight bytes, most significant first. *)

Pow256(k) == IF k = 0 THEN 1 ELSE IF k = 1 THEN 256 ELSE 65536

\* write_u64_le in place of write_u64.
U64LE(n) == [i \in 1..8 |-> IF i >= 4 THEN 0 ELSE (n \div Pow256(i - 1)) % 256]

\* AsyncWriteExt::write_u64(len), for the lengths of the model (below 2^24).
U64BE(n) == [i \in 1..8 |-> IF i <= 5 THEN 0 ELSE (n \div Pow256(8 - i)) % 256]

\* read_u64_le in place of read_u64.
RECURSIVE LEFold(_)
LEFold(b) == IF b = <<>> THEN 0 ELSE Min(Head(b) + 256 * LEFold(Tail(b)), LenCap)

ReadU64LE(b) == LEFold(b)

\* AsyncReadExt::read_u64 over the eight bytes read; `len as usize` keeps it.
RECURSIVE BEFold(_, _)
BEFold(b, acc) ==
    IF b = <<>> THEN acc ELSE BEFold(Tail(b), Min(acc * 256 + Head(b), LenCap))

ReadU64(b) == BEFold(b, 0)

Take(s, k) == SubSeq(s, 1, k)
\* A BufReader made anew in each call: what it read ahead leaves the stream
\* with it.
DropBuffered(s, k) == <<>>

Drop(s, k) == SubSeq(s, k + 1, Len(s))

----------------------------------------------------------------------------
(* send_message (src/src/lib.rs:285-307) *)

SendDone(res) == Append(sends, [msg |-> sMsg, res |-> res, bytes |-> sBytes])

\* The call and its synchronous part: encode_to_vec, an early Err(()) when
\* encoding fails, otherwise on to write_u64.
SendStart(m) ==
    /\ sPc = "idle"
    /\ Len(sends) < MaxSends
    /\ LET e == Encode(m)
       IN  IF ~e.ok
           THEN /\ sends' = Append(sends, [msg |-> m, res |-> "Err", bytes |-> <<>>])
                /\ UNCHANGED <<sPc, sMsg, sEnc, sOff, sBytes>>
           ELSE /\ sPc' = "len"
                /\ sMsg' = m
                /\ sEnc' = e.bytes
                /\ sOff' = 0
                /\ sBytes' = <<>>
                /\ UNCHANGED sends
    /\ UNCHANGED <<connOpen, wire, rPc, rLenBuf, rLen, rBuf, reads, rPos, rMarks>>
    /\ UNCHANGED <<treeVars, convVars>>

\* socket.write_u64(len).await succeeded.
WriteLen ==
    /\ sPc = "len"
    /\ connOpen
    /\ wire' = wire \o U64BE(Len(sEnc))
    /\ sBytes' = sBytes \o U64BE(Len(sEnc))
    /\ sPc' = "payload"
    /\ UNCHANGED <<sMsg, sEnc, sOff, sends, connOpen, rPc, rLenBuf, rLen, rBuf, reads, rPos, rMarks>>
    /\ UNCHANGED <<treeVars, convVars>>

\* socket.write_u64(len).await failed after k of the eight bytes: Err(()).
\* A write error ends the write half for good.
WriteLenFail(k) ==
    /\ sPc = "len"
    /\ connOpen \/ k = 0
    /\ wire' = wire \o Take(U64BE(Len(sEnc)), k)
    /\ sends' = Append(sends, [msg |-> sMsg, res |-> "Err",
                               bytes |-> sBytes \o Take(U64BE(Len(sEnc)), k)])
    /\ sPc' = "idle"
    /\ connOpen' = FALSE
    /\ UNCHANGED <<sMsg, sEnc, sOff, sBytes, rPc, rLenBuf, rLen, rBuf, reads, rPos, rMarks>>
    /\ UNCHANGED <<treeVars, convVars>>

\* socket.write_all(&encoded_msg[..]).await hands over the next k bytes; with
\* the last of them the call returns Ok(()).
WritePayload(k) ==
    /\ sPc = "payload"
    /\ connOpen
    /\ k \in 1..(Len(sEnc) - sOff)
    /\ LET chunk == SubSeq(sEnc, sOff + 1, sOff + k)
       IN  /\ wire' = wire \o chunk
           /\ sBytes' = sBytes \o chunk
           /\ sOff' = sOff + k
           /\ IF sOff + k = Len(sEnc)
              THEN /\ sends' = Append(sends, [msg |-> sMsg, res |-> "Ok",
                                              bytes |-> sBytes \o chunk])
                   /\ sPc' = "idle"
              ELSE UNCHANGED <<sends, sPc>>
    /\ UNCHANGED <<sMsg, sEnc, connOpen, rPc, rLenBuf, rLen, rBuf, reads, rPos, rMarks>>
    /\ UNCHANGED <<treeVars, convVars>>

\* socket.write_all failed: Err(()), whatever was written stays written.
WritePayloadFail ==
    /\ sPc = "payload"
    /\ sends' = SendDone("Err")
    /\ sPc' = "idle"
    /\ connOpen' = FALSE
    /\ UNCHANGED <<sMsg, sEnc, sOff, sBytes, wire, rPc, rLenBuf, rLen, rBuf, reads, rPos, rMarks>>
    /\ UNCHANGED <<treeVars, convVars>>

\* The peer drops its stream between two calls.
PeerClose ==
    /\ sPc = "idle"
    /\ connOpen
    /\ connOpen' = FALSE
    /\ UNCHANGED <<sPc, sMsg, sEnc, sOff, sBytes, sends, wire, rPc, rLenBuf, rLen, rBuf, reads, rPos, rMarks>>
    /\ UNCHANGED <<treeVars, convVars>>

----------------------------------------------------------------------------
(* read_message (src/src/lib.rs:235-281) *)

\* What a finished call leaves behind: the returned value (res, msg), the line
\* written to stderr, and what the call had done when it returned.
ReadRecord(res, msg, cause, log, decoded, got, declared) ==
    [res |-> res, msg |-> msg, cause |-> cause, log |-> log,
     decoded |-> decoded, got |-> got, declared |-> declared]

\* Err(()) after the eprintln of each failing branch.
LenReadFailed  == ReadRecord("Err", <<>>, "closed_len", "Failed to read msg length", FALSE, <<>>, -1)
LenTimedOut    == ReadRecord("Err", <<>>, "timeout_len", "Read operation timed out.", FALSE, <<>>, -1)
BufReadFailed(got, len) ==
    ReadRecord("Err", <<>>, "closed_payload", "Couldn't read into buffer", FALSE, got, len)
BufTimedOut(got, len) ==
    ReadRecord("Err", <<>>, "timeout_payload", "Read operation timed out.", FALSE, got, len)

\* bincode::decode_from_slice over the filled buffer, and the value returned.
Decoded(d, buf, len) ==
    IF d.ok
    THEN ReadRecord("Ok", d.val, "none", "", TRUE, buf, len)
    ELSE ReadRecord("Err", <<>>, "decode", "Couldn't decode Message with bincode",
                    TRUE, buf, len)

DecodeBuf(buf, len) == Decoded(Decode(buf), buf, len)

\* read in place of read_exact: content with whatever arrived first.
BufTouched(buf, len) == len = 0 \/ Len(buf) >= 1

\* read_exact(&mut buf) returns Ok once buf is full.
BufFull(buf, len) == Len(buf) = len

\* The peer's write half is gone and everything it wrote has been read.
AtEof == wire = <<>> /\ ~connOpen

ReadStart ==
    /\ rPc = "idle"
    /\ Len(reads) < MaxReads
    /\ rPc' = "len"
    /\ rLenBuf' = <<>>
    /\ UNCHANGED <<sPc, sMsg, sEnc, sOff, sBytes, sends, connOpen, wire, rLen, rBuf, reads, rPos, rMarks>>
    /\ UNCHANGED <<treeVars, convVars>>

\* read_u64 takes what the stream holds, up to its eight bytes.  With the
\* eighth byte: len, vec![0; len], and for len = 0 read_exact is ready at once
\* and the empty buffer is decoded.
ReadLenStep ==
    /\ rPc = "len"
    /\ wire # <<>>
    /\ LET k  == Min(Len(wire), 8 - Len(rLenBuf))
           nb == rLenBuf \o Take(wire, k)
       IN  /\ wire' = Drop(wire, k)
           /\ rPos' = rPos + Len(wire) - Len(wire')
           /\ IF Len(nb) < 8
              THEN /\ rLenBuf' = nb
                   /\ UNCHANGED <<rPc, rLen, rBuf, reads, rMarks>>
              ELSE IF BufFull(<<>>, ReadU64(nb))
              THEN /\ reads' = Append(reads, DecodeBuf(<<>>, ReadU64(nb)))
                   /\ rMarks' = Append(rMarks, rPos')
                   /\ rPc' = "idle"
                   /\ rLenBuf' = <<>>
                   /\ UNCHANGED <<rLen, rBuf>>
              ELSE /\ rPc' = "payload"
                   /\ rLen' = ReadU64(nb)
                   /\ rBuf' = <<>>
                   /\ rLenBuf' = <<>>
                   /\ UNCHANGED <<reads, rMarks>>
    /\ UNCHANGED <<sPc, sMsg, sEnc, sOff, sBytes, sends, connOpen>>
    /\ UNCHANGED <<treeVars, convVars>>

\* Ok(Err(e)) on read_u64: the stream ended before the eight bytes.
ReadLenClosed ==
    /\ rPc = "len"
    /\ AtEof
    /\ reads' = Append(reads, LenReadFailed)
    /\ rMarks' = Append(rMarks, rPos)
    /\ UNCHANGED rPos
    /\ rPc' = "idle"
    /\ rLenBuf' = <<>>
    /\ UNCHANGED <<sPc, sMsg, sEnc, sOff, sBytes, sends, connOpen, wire, rLen, rBuf>>
    /\ UNCHANGED <<treeVars, convVars>>

\* Err(_) on read_u64: 600 s passed with the stream open and nothing to read.
\* The bytes read_u64 had taken are gone with the future.
ReadLenTimeout ==
    /\ rPc = "len"
    /\ wire = <<>>
    /\ connOpen
    /\ reads' = Append(reads, LenTimedOut)
    /\ rMarks' = Append(rMarks, rPos)
    /\ UNCHANGED rPos
    /\ rPc' = "idle"
    /\ rLenBuf' = <<>>
    /\ UNCHANGED <<sPc, sMsg, sEnc, sOff, sBytes, sends, connOpen, wire, rLen, rBuf>>
    /\ UNCHANGED <<treeVars, convVars>>

\* vec![0; len] for a length no allocator serves: the process aborts (the
\* allocation may also be granted lazily, and then the call waits in "payload").
ReadAllocAbort ==
    /\ rPc = "payload"
    /\ rLen >= LenCap
    /\ rBuf = <<>>
    /\ reads' = Append(reads, ReadRecord("Abort", <<>>, "alloc", "", FALSE, <<>>, rLen))
    /\ rMarks' = Append(rMarks, rPos)
    /\ UNCHANGED rPos
    /\ rPc' = "aborted"
    /\ UNCHANGED <<sPc, sMsg, sEnc, sOff, sBytes, sends, connOpen, wire, rLenBuf, rLen, rBuf>>
    /\ UNCHANGED <<treeVars, convVars>>

\* read_exact takes what the stream holds, up to the rest of buf; once buf is
\* full the buffer is decoded and the call returns.
ReadPayloadStep ==
    /\ rPc = "payload"
    /\ wire # <<>>
    /\ LET k  == Min(Len(wire), rLen - Len(rBuf))
           nb == rBuf \o Take(wire, k)
       IN  /\ wire' = Drop(wire, k)
           /\ rPos' = rPos + Len(wire) - Len(wire')
           /\ IF BufFull(nb, rLen)
              THEN /\ reads' = Append(reads, DecodeBuf(nb, rLen))
                   /\ rMarks' = Append(rMarks, rPos')
                   /\ rPc' = "idle"
                   /\ rBuf' = <<>>
              ELSE /\ rBuf' = nb
                   /\ UNCHANGED <<rPc, reads, rMarks>>
    /\ UNCHANGED <<sPc, sMsg, sEnc, sOff, sBytes, sends, connOpen, rLenBuf, rLen>>
    /\ UNCHANGED <<treeVars, convVars>>

\* Ok(Err(e)) on read_exact: the stream ended before buf was full.
ReadPayloadClosed ==
    /\ rPc = "payload"
    /\ AtEof
    /\ reads' = Append(reads, BufReadFailed(rBuf, rLen))
    /\ rMarks' = Append(rMarks, rPos)
    /\ UNCHANGED rPos
    /\ rPc' = "idle"
    /\ rBuf' = <<>>
    /\ UNCHANGED <<sPc, sMsg, sEnc, sOff, sBytes, sends, connOpen, wire, rLenBuf, rLen>>
    /\ UNCHANGED <<treeVars, convVars>>

\* Err(_) on read_exact: 600 s passed before buf was full.
ReadPayloadTimeout ==
    /\ rPc = "payload"
    /\ wire = <<>>
    /\ connOpen
    /\ reads' = Append(reads, BufTimedOut(rBuf, rLen))
    /\ rMarks' = Append(rMarks, rPos)
    /\ UNCHANGED rPos
    /\ rPc' = "idle"
    /\ rBuf' = <<>>
    /\ UNCHANGED <<sPc, sMsg, sEnc, sOff, sBytes, sends, connOpen, wire, rLenBuf, rLen>>
    /\ UNCHANGED <<treeVars, convVars>>

----------------------------------------------------------------------------
(* projects.rs: the settings versions and the license projection.          *)
(* Option<String> is <<"None">> or <<"Some", s>>.                          *)

None == <<"None">>
Some(x) == <<"Some", x>>

Strings == {"", "x"}
OptionString == {None} \cup {Some(x) : x \in Strings}

\* struct ProjectSettingsV2 (src/src/projects.rs:35-39)
ProjectSettingsV2 == [toc_enabled : BOOLEAN, csl_style : OptionString]

\* struct ProjectSettingsV3 (src/src/projects.rs:28-33)
ProjectSettingsV3 ==
    [toc_enabled : BOOLEAN, csl_style : OptionString, csl_language_code : OptionString]

\* csl_language_code not carried over.
FromV3Lossy(settings) ==
    [toc_enabled |-> settings.toc_enabled,
     csl_style |-> settings.csl_style,
     csl_language_code |-> None,
     metadata_page_additional_html |-> None,
     cover_image_path |-> None,
     backcover_image_path |-> None]

\* impl From<ProjectSettingsV3> for ProjectSettingsV4 (src/src/projects.rs:15-26)
FromV3(settings) ==
    [toc_enabled |-> settings.toc_enabled,
     csl_style |-> settings.csl_style,
     csl_language_code |-> settings.csl_language_code,
     metadata_page_additional_html |-> None,
     cover_image_path |-> None,
     backcover_image_path |-> None]

\* enum License (src/src/projects.rs:196-205)
CCVariants ==
    {"CC0", "CC_BY_4", "CC_BY_SA_4", "CC_BY_ND_4", "CC_BY_NC_4", "CC_BY_NC_SA_4",
     "CC_BY_NC_ND_4"}

License == {<<v>> : v \in CCVariants} \cup {<<"Other", x>> : x \in Strings}

NoLicense ==
    [CC0 |-> FALSE, CC_BY_4 |-> FALSE, CC_BY_SA_4 |-> FALSE, CC_BY_ND_4 |-> FALSE,
     CC_BY_NC_4 |-> FALSE, CC_BY_NC_SA_4 |-> FALSE, CC_BY_NC_ND_4 |-> FALSE, other |-> ""]

\* The arm of CC_BY_NC_SA_4 setting the flag of its neighbour as well.
PreparedLicenseFromSlip(license) ==
    CASE license[1] = "CC0" -> [NoLicense EXCEPT !.CC0 = TRUE]
      [] license[1] = "CC_BY_4" -> [NoLicense EXCEPT !.CC_BY_4 = TRUE]
      [] license[1] = "CC_BY_SA_4" -> [NoLicense EXCEPT !.CC_BY_SA_4 = TRUE]
      [] license[1] = "CC_BY_ND_4" -> [NoLicense EXCEPT !.CC_BY_ND_4 = TRUE]
      [] license[1] = "CC_BY_NC_4" -> [NoLicense EXCEPT !.CC_BY_NC_4 = TRUE]
      [] license[1] = "CC_BY_NC_SA_4" ->
            [NoLicense EXCEPT !.CC_BY_NC_SA_4 = TRUE, !.CC_BY_NC_ND_4 = TRUE]
      [] license[1] = "CC_BY_NC_ND_4" -> [NoLicense EXCEPT !.CC_BY_NC_ND_4 = TRUE]
      [] license[1] = "Other" -> [NoLicense EXCEPT !.other = license[2]]

\* impl From<License> for PreparedLicense (src/src/projects.rs:208-221)
PreparedLicenseFrom(license) ==
    CASE license[1] = "CC0" -> [NoLicense EXCEPT !.CC0 = TRUE]
      [] license[1] = "CC_BY_4" -> [NoLicense EXCEPT !.CC_BY_4 = TRUE]
      [] license[1] = "CC_BY_SA_4" -> [NoLicense EXCEPT !.CC_BY_SA_4 = TRUE]
      [] license[1] = "CC_BY_ND_4" -> [NoLicense EXCEPT !.CC_BY_ND_4 = TRUE]
      [] license[1] = "CC_BY_NC_4" -> [NoLicense EXCEPT !.CC_BY_NC_4 = TRUE]
      [] license[1] = "CC_BY_NC_SA_4" -> [NoLicense EXCEPT !.CC_BY_NC_SA_4 = TRUE]
      [] license[1] = "CC_BY_NC_ND_4" -> [NoLicense EXCEPT !.CC_BY_NC_ND_4 = TRUE]
      [] license[1] = "Other" -> [NoLicense EXCEPT !.other = license[2]]

\* No value yet.
NotConverted == [converted |-> FALSE]

Converted(v) == "converted" \notin DOMAIN v

ConvIdle ==
    /\ settingsIn = NotConverted
    /\ settingsOut = NotConverted
    /\ licenseIn = NotConverted
    /\ licenseOut = NotConverted

ConvInit ==
    /\ settingsIn \in ProjectSettingsV3
    /\ settingsOut = NotConverted
    /\ licenseIn \in License
    /\ licenseOut = NotConverted

\* let v4: ProjectSettingsV4 = settings.into();
UpgradeSettings ==
    /\ ~Converted(settingsOut)
    /\ settingsOut' = FromV3(settingsIn)
    /\ UNCHANGED <<settingsIn, licenseIn, licenseOut>>
    /\ UNCHANGED <<netVars, treeVars>>

\* let prepared: PreparedLicense = license.into();
PrepareLicense ==
    /\ ~Converted(licenseOut)
    /\ licenseOut' = PreparedLicenseFrom(licenseIn)
    /\ UNCHANGED <<settingsIn, settingsOut, licenseIn>>
    /\ UNCHANGED <<netVars, treeVars>>

----------------------------------------------------------------------------
\* The connection before its first call.
NetInit ==
    /\ sPc = "idle"
    /\ sMsg = <<>>
    /\ sEnc = <<>>
    /\ sOff = 0
    /\ sBytes = <<>>
    /\ sends = <<>>
    /\ connOpen = TRUE
    /\ wire = <<>>
    /\ rPc = "idle"
    /\ rLenBuf = <<>>
    /\ rLen = 0
    /\ rBuf = <<>>
    /\ reads = <<>>
    /\ rPos = 0
    /\ rMarks = <<>>

----------------------------------------------------------------------------
(* The file system under the tree codec.  A path is a sequence of names    *)
(* below one of two roots; a node is absent, a directory or a file.        *)

SrcRoot == <<"src">>
DstRoot == <<"dst">>

Names == {"a", "b"}
\* A name that is not valid text (OsStr::to_str gives None).
BadNames == {"nonutf8"}
AllNames == Names \cup BadNames

Contents == {<<>>, <<7>>}

RelPaths == {<<>>} \cup {<<n>> : n \in AllNames} \cup {<<n, m>> : n, m \in AllNames}
Paths == {r \o q : r \in {SrcRoot, DstRoot}, q \in RelPaths}

Absent == <<"absent">>
DirNode == <<"dir">>
FileNode(c) == <<"file", c>>

NodeAt(f, p) == IF p \in DOMAIN f THEN f[p] ELSE Absent

Parent(p) == SubSeq(p, 1, Len(p) - 1)

\* The two roots lie in a directory that always exists.
ParentIsDir(f, p) == Len(p) = 1 \/ NodeAt(f, Parent(p)) = DirNode

\* An I/O fault (permission, device) on operation op at path p.
Fails(bad, op, p) == <<op, p>> \in bad

----------------------------------------------------------------------------
(* recursive_read_dir_async (src/src/lib.rs:61-94) *)

ROk(v) == [ok |-> TRUE, skip |-> FALSE, val |-> v]
RErr == [ok |-> FALSE, skip |-> FALSE, val |-> <<>>]
RSkip == [ok |-> TRUE, skip |-> TRUE, val |-> <<>>]

\* The orders in which read_dir may list a directory.
Orders == {<<"a", "b", "nonutf8">>, <<"nonutf8", "b", "a">>}

\* read_dir(path): the entries present, in the order the platform lists them.
Listing(f, path, order) ==
    SelectSeq(order, LAMBDA n : NodeAt(f, path \o <<n>>) # Absent)

\* contents.push(...) after the entry was read; `?` hands an error on.
PushEntry(e, rest) ==
    IF ~e.ok \/ ~rest.ok THEN RErr
    ELSE IF e.skip THEN rest
    ELSE ROk(<<e.val>> \o rest.val)

\* The folder without what it holds.
FolderShallow(name, r) == IF r.ok THEN ROk(<<"Folder", name, <<>>>>) ELSE RErr

FolderOf(name, r) == IF r.ok THEN ROk(<<"Folder", name, r.val>>) ELSE RErr

\* tokio::fs::read(path): the whole content of the file.
ReadFile(f, name, p, bad) ==
    IF Fails(bad, "read", p) THEN RErr ELSE ROk(<<"File", name, NodeAt(f, p)[2]>>)

RECURSIVE ReadDir(_, _, _, _)
RECURSIVE ReadEntries(_, _, _, _, _)
RECURSIVE ReadEntry(_, _, _, _, _)

\* One turn of the while loop: an unreadable name is skipped, then metadata,
\* then a folder is read recursively and a file is read whole.
ReadEntry(f, p, name, order, bad) ==
    IF name \in BadNames THEN RSkip
    ELSE IF Fails(bad, "metadata", p) THEN RErr
    ELSE IF NodeAt(f, p) = DirNode THEN FolderOf(name, ReadDir(f, p, order, bad))
    ELSE ReadFile(f, name, p, bad)

ReadEntries(f, path, names, order, bad) ==
    IF names = <<>> THEN ROk(<<>>)
    ELSE PushEntry(ReadEntry(f, path \o <<Head(names)>>, Head(names), order, bad),
                   ReadEntries(f, path, Tail(names), order, bad))

ReadDir(f, path, order, bad) ==
    IF Fails(bad, "read_dir", path) \/ NodeAt(f, path) # DirNode THEN RErr
    ELSE ReadEntries(f, path, Listing(f, path, order), order, bad)

----------------------------------------------------------------------------
(* recursive_write_dir_async (src/src/lib.rs:96-113).  The state threaded  *)
(* through the loop is [fs, ok, log].                                      *)

WState(f, ok, log) == [fs |-> f, ok |-> ok, log |-> log]

Logged(st, op, p, outcome, c) == Append(st.log, <<op, p, outcome, c>>)

\* tokio::fs::write creates or truncates the file; the directory must exist
\* and the path must not be a directory.
CanWrite(f, p) == ParentIsDir(f, p) /\ NodeAt(f, p) # DirNode

\* std::fs::create_dir: the parent must exist and the path must be free.
CanCreateDir(f, p) == ParentIsDir(f, p) /\ NodeAt(f, p) = Absent

WriteFile(st, p, c, bad) ==
    IF Fails(bad, "write", p) THEN WState(st.fs, FALSE, Logged(st, "write", p, "fault", c))
    ELSE IF ~CanWrite(st.fs, p) THEN WState(st.fs, FALSE, Logged(st, "write", p, "refused", c))
    ELSE WState([st.fs EXCEPT ![p] = FileNode(c)], TRUE, Logged(st, "write", p, "ok", c))

CreateDir(st, p, bad) ==
    IF Fails(bad, "create_dir", p)
    THEN WState(st.fs, FALSE, Logged(st, "create_dir", p, "fault", <<>>))
    ELSE IF ~CanCreateDir(st.fs, p)
    THEN WState(st.fs, FALSE, Logged(st, "create_dir", p, "refused", <<>>))
    ELSE WState([st.fs EXCEPT ![p] = DirNode], TRUE, Logged(st, "create_dir", p, "ok", <<>>))

RECURSIVE WriteEntries(_, _, _, _)
RECURSIVE WriteFolder(_, _, _, _)
RECURSIVE WriteEntry(_, _, _, _)

\* The children written first, the directory created afterwards.
WriteFolderChildrenFirst(st, p, contents, bad) ==
    IF ~st.ok THEN st ELSE CreateDir(WriteEntries(st, p, contents, bad), p, bad)

\* create_dir(&res_path)?; then the folder's contents below it.
WriteFolder(st, p, contents, bad) ==
    IF ~st.ok THEN st ELSE WriteEntries(CreateDir(st, p, bad), p, contents, bad)

WriteEntry(st, base, e, bad) ==
    IF e[1] = "File" THEN WriteFile(st, base \o <<e[2]>>, e[3], bad)
    ELSE WriteFolder(st, base \o <<e[2]>>, e[3], bad)

\* for entry in contents { ... ? }: the first error ends the loop.
WriteEntries(st, base, contents, bad) ==
    IF ~st.ok \/ contents = <<>> THEN st
    ELSE WriteEntries(WriteEntry(st, base, Head(contents), bad), base, Tail(contents), bad)

WriteResult(st) == IF st.ok THEN "Ok" ELSE "Err"

----------------------------------------------------------------------------
(* TemplateContents::from_path, TemplateContents::to_file and a direct     *)
(* call of recursive_write_dir_async, on the source and destination roots. *)

\* The paths below a root that the codec can touch: valid names, two levels.
EntryPaths(root) == {root \o <<n>> : n \in Names} \cup {root \o <<n, m>> : n, m \in Names}

\* At most one I/O fault per call, on an operation the codec performs there.
ReadFaults ==
    {{}} \cup {{<<"read_dir", p>>} : p \in {SrcRoot} \cup EntryPaths(SrcRoot)}
         \cup {{<<op, p>>} : op \in {"metadata", "read"}, p \in EntryPaths(SrcRoot)}

WriteFaults ==
    {{}} \cup {{<<op, DstRoot>>} : op \in {"try_exists", "create_dir_all"}}
         \cup {{<<op, p>>} : op \in {"create_dir", "write"}, p \in EntryPaths(DstRoot)}

FromPathDone(r, bad) ==
    /\ tree' = r.val
    /\ readRes' = IF r.ok THEN "Ok" ELSE "Err"
    /\ readBad' = IF r.ok THEN {} ELSE bad
    /\ tPc' = IF r.ok THEN "read" ELSE "done"

\* TemplateContents::from_path(src) (src/src/lib.rs:41-47)
FromPath(order, bad) ==
    /\ tPc = "start"
    /\ FromPathDone(ReadDir(fs, SrcRoot, order, bad), bad)
    /\ UNCHANGED <<fs, fs0, via, writeRes, oplog, tree2>>
    /\ UNCHANGED <<netVars, convVars>>

WriteDone(st, how) ==
    /\ fs' = st.fs
    /\ oplog' = st.log
    /\ writeRes' = WriteResult(st)
    /\ via' = how
    /\ tPc' = "done"

\* dest.try_exists()? failed: the error is returned.
ToFileExistsErr == WState(fs, FALSE, <<<<"try_exists", DstRoot, "fault", <<>>>>>>)

\* create_dir_all(&dest), whose failure is unwrapped.
CreateDirAll(f, p, bad) ==
    IF Fails(bad, "create_dir_all", p)
    THEN WState(f, FALSE, <<<<"create_dir_all", p, "fault", <<>>>>>>)
    ELSE WState([f EXCEPT ![p] = DirNode], TRUE, <<<<"create_dir_all", p, "ok", <<>>>>>>)

ToFileAfterCreate(st, bad) ==
    IF ~st.ok
    THEN /\ fs' = st.fs
         /\ oplog' = st.log
         /\ writeRes' = "Panic"
         /\ via' = "to_file"
         /\ tPc' = "done"
    ELSE WriteDone(WriteEntries(st, DstRoot, tree, bad), "to_file")

\* TemplateContents::to_file(self, dest) (src/src/lib.rs:51-58)
ToFile(bad) ==
    /\ tPc = "read"
    /\ IF Fails(bad, "try_exists", DstRoot) THEN WriteDone(ToFileExistsErr, "to_file")
       ELSE IF NodeAt(fs, DstRoot) = Absent
       THEN ToFileAfterCreate(CreateDirAll(fs, DstRoot, bad), bad)
       ELSE WriteDone(WriteEntries(WState(fs, TRUE, <<>>), DstRoot, tree, bad), "to_file")
    /\ UNCHANGED <<fs0, tree, readBad, readRes, tree2>>
    /\ UNCHANGED <<netVars, convVars>>

\* recursive_write_dir_async(dest, contents) called by itself
WriteDirect(bad) ==
    /\ tPc = "read"
    /\ WriteDone(WriteEntries(WState(fs, TRUE, <<>>), DstRoot, tree, bad), "direct")
    /\ UNCHANGED <<fs0, tree, readBad, readRes, tree2>>
    /\ UNCHANGED <<netVars, convVars>>

\* TemplateContents::from_path(dest) after a write that returned Ok.
ReadBack(order) ==
    /\ tPc = "done"
    /\ writeRes = "Ok"
    /\ tree2' = ReadDir(fs, DstRoot, order, {}).val
    /\ tPc' = "checked"
    /\ UNCHANGED <<fs, fs0, tree, readBad, readRes, via, writeRes, oplog>>
    /\ UNCHANGED <<netVars, convVars>>

\* Node kinds the bounded trees are drawn from, by level.
Level1Nodes == {Absent, DirNode} \cup {FileNode(c) : c \in Contents}
Level2Nodes == {Absent, DirNode, FileNode(<<7>>)}
\* The destination before the write: absent, an empty directory, or a
\* directory that already holds a file or a folder "a".
DstShapes == {"absent", "empty", "file_a", "dir_a"}

InitFs(l1, l2, badFile, dst) ==
    [p \in Paths |->
        IF p[1] = "src"
        THEN IF Len(p) = 1 THEN DirNode
             ELSE IF Len(p) = 2
             THEN IF p[2] \in BadNames
                  THEN (IF badFile THEN FileNode(<<7>>) ELSE Absent)
                  ELSE l1[p[2]]
             ELSE IF p[2] \in Names /\ p[3] \in Names THEN l2[<<p[2], p[3]>>] ELSE Absent
        ELSE IF Len(p) = 1 THEN (IF dst = "absent" THEN Absent ELSE DirNode)
             ELSE IF p = DstRoot \o <<"a">>
             THEN (IF dst = "file_a" THEN FileNode(<<9>>)
                   ELSE IF dst = "dir_a" THEN DirNode ELSE Absent)
             ELSE Absent]

TreeIdle ==
    /\ fs = [p \in Paths |-> Absent]
    /\ fs0 = fs
    /\ tPc = "off"
    /\ tree = <<>>
    /\ readBad = {}
    /\ readRes = "none"
    /\ via = "none"
    /\ writeRes = "none"
    /\ oplog = <<>>
    /\ tree2 = <<>>

TreeInit ==
    /\ \E l1 \in [Names -> Level1Nodes], l2 \in [Names \X Names -> Level2Nodes],
          badFile \in BOOLEAN, dst \in DstShapes :
          /\ \A n, m \in Names : l1[n] # DirNode => l2[<<n, m>>] = Absent
          /\ fs = InitFs(l1, l2, badFile, dst)
    /\ fs0 = fs
    /\ tPc = "start"
    /\ tree = <<>>
    /\ readBad = {}
    /\ readRes = "none"
    /\ via = "none"
    /\ writeRes = "none"
    /\ oplog = <<>>
    /\ tree2 = <<>>

InitTree == NetInit /\ TreeInit /\ ConvIdle

NextTree ==
    \/ \E order \in Orders, bad \in ReadFaults : FromPath(order, bad)
    \/ \E bad \in WriteFaults : ToFile(bad)
    \/ \E bad \in WriteFaults : WriteDirect(bad)
    \/ \E order \in Orders : ReadBack(order)

SpecTree == InitTree /\ [][NextTree]_vars

InitConv == NetInit /\ TreeIdle /\ ConvInit

NextConv == UpgradeSettings \/ PrepareLicense

SpecConv == InitConv /\ [][NextConv]_vars

----------------------------------------------------------------------------
(* One connection: a task sending, the peer's task reading. *)

Init == NetInit /\ TreeIdle /\ ConvIdle

Next ==
    \/ \E m \in Messages : SendStart(m)
    \/ WriteLen
    \/ \E k \in 0..7 : WriteLenFail(k)
    \/ \E k \in 1..MaxChunk : WritePayload(k)
    \/ WritePayloadFail
    \/ PeerClose
    \/ ReadStart
    \/ ReadLenStep
    \/ ReadLenClosed
    \/ ReadLenTimeout
    \/ ReadAllocAbort
    \/ ReadPayloadStep
    \/ ReadPayloadClosed
    \/ ReadPayloadTimeout

Spec == Init /\ [][Next]_vars

----------------------------------------------------------------------------
(* The same connection with a peer that frames as send_message does but is  *)
(* another build: what it puts into a frame need not be an encoding of this *)
(* build's Message.  read_message takes whatever the stream holds.          *)

\* Payloads of the peer: Status(Running); Status(Running) and one byte more;
\* a variant index no Message has; Status cut off after its variant index.
ForeignPayloads == { <<3, 7>>, <<3, 7, 9>>, <<9, 1>>, <<3>> }

\* The peer starts a frame with payload p.
PeerFrameStart(p) ==
    /\ sPc = "idle"
    /\ Len(sends) < MaxSends
    /\ sPc' = "len"
    /\ sMsg' = <<"Foreign", p>>
    /\ sEnc' = p
    /\ sOff' = 0
    /\ sBytes' = <<>>
    /\ UNCHANGED <<sends, connOpen, wire, rPc, rLenBuf, rLen, rBuf, reads, rPos, rMarks>>
    /\ UNCHANGED <<treeVars, convVars>>

NextFrames ==
    \/ \E p \in ForeignPayloads : PeerFrameStart(p)
    \/ WriteLen
    \/ \E k \in 0..7 : WriteLenFail(k)
    \/ \E k \in 1..MaxChunk : WritePayload(k)
    \/ WritePayloadFail
    \/ PeerClose
    \/ ReadStart
    \/ ReadLenStep
    \/ ReadLenClosed
    \/ ReadLenTimeout
    \/ ReadAllocAbort
    \/ ReadPayloadStep
    \/ ReadPayloadClosed
    \/ ReadPayloadTimeout

SpecFrames == Init /\ [][NextFrames]_vars

----------------------------------------------------------------------------
(* Claims about the framed transport, checked under Spec. *)

OkSends == SelectSeq(sends, LAMBDA r : r.res = "Ok")

TransportFaults == {"closed_len", "timeout_len", "closed_payload", "timeout_payload", "alloc"}

NoFaultUpTo(rs, k) == \A i \in 1..k : rs[i].cause \notin TransportFaults

\* Every read so far that no transport fault precedes returned the message of
\* the send with the same number.
InOrder(rs, ss) ==
    \A k \in 1..Len(rs) :
        NoFaultUpTo(rs, k) =>
            /\ k <= Len(ss)
            /\ rs[k].res = "Ok"
            /\ rs[k].msg = ss[k].msg

\* C1: on one connection the k-th read_message returns Ok(m_k), the message of
\* the k-th send_message that returned Ok: equal to it, in write order, once each.
\* A read fails with a transport fault (stream ended, timeout) only while fewer
\* than k sends have returned Ok, and reads after such a fault are not covered.
C1_InOrderDelivery ==
    [][/\ InOrder(reads', OkSends')
       /\ (/\ Len(reads') = Len(reads) + 1
           /\ NoFaultUpTo(reads, Len(reads))
           /\ reads'[Len(reads')].cause \in TransportFaults)
          => Len(OkSends) < Len(reads')]_vars

C1_Witness ==
    /\ Len(reads) = 2
    /\ reads[1].res = "Ok"
    /\ reads[2].res = "Ok"
    /\ reads[1].msg # reads[2].msg
    /\ Len(reads[2].got) = 3

\* The eight bytes b read as an unsigned big-endian integer are n (n < 2^24).
IsBigEndianOf(b, n) ==
    /\ Len(b) = 8
    /\ \A i \in 1..5 : b[i] = 0
    /\ b[6] * 65536 + b[7] * 256 + b[8] = n

IsFrameOf(b, payload) ==
    /\ Len(b) = 8 + Len(payload)
    /\ IsBigEndianOf(Take(b, 8), Len(payload))
    /\ Drop(b, 8) = payload

\* C2: a send_message call that returned Ok has put on the stream exactly one
\* frame, the 8-byte big-endian count of the encoded bytes and then those bytes,
\* and nothing else; while a call is writing, the bytes it has written are the
\* whole length prefix followed by the part of the payload written so far (no
\* payload byte before the prefix).
C2_OneFramePerSend ==
    /\ \A i \in 1..Len(sends) :
          sends[i].res = "Ok" => IsFrameOf(sends[i].bytes, Encode(sends[i].msg).bytes)
    /\ sPc = "len" => sBytes = <<>>
    /\ sPc = "payload" =>
          /\ sOff < Len(sEnc)
          /\ Len(sBytes) = 8 + sOff
          /\ IsBigEndianOf(Take(sBytes, 8), Len(Encode(sMsg).bytes))
          /\ Drop(sBytes, 8) = Take(Encode(sMsg).bytes, sOff)

C2_Witness ==
    \E i \in 1..Len(sends) :
        /\ sends[i].res = "Ok"
        /\ Len(sends[i].bytes) = 11
        /\ sends[i].bytes[8] = 3

FailureCauses == {"closed_len", "timeout_len", "closed_payload", "timeout_payload", "decode"}

\* C3: the failure read_message reports identifies its cause: two failed calls
\* with different causes (timeout on the length, timeout on the payload, stream
\* ended, decode failure) never report the same thing, even counting the line
\* written to stderr with the returned value.
C3_FailureIdentifiesCause ==
    \A i, j \in 1..Len(reads) :
        (/\ reads[i].cause \in FailureCauses
         /\ reads[j].cause \in FailureCauses
         /\ reads[i].cause # reads[j].cause)
        => <<reads[i].res, reads[i].msg, reads[i].log>>
               # <<reads[j].res, reads[j].msg, reads[j].log>>

\* C4: read_message decodes only a buffer holding exactly the declared number
\* of bytes, returns a message only from such a decode, and when the stream
\* ends or the timeout fires with fewer bytes than declared it fails at the
\* read, without a decode and without a message.
C4_DecodeOnlyCompleteFrame ==
    \A i \in 1..Len(reads) :
        /\ reads[i].decoded => Len(reads[i].got) = reads[i].declared
        /\ reads[i].res = "Ok" =>
              /\ reads[i].decoded
              /\ Decode(reads[i].got).ok
              /\ reads[i].msg = Decode(reads[i].got).val
        /\ reads[i].cause \in {"closed_payload", "timeout_payload"} =>
              /\ ~reads[i].decoded
              /\ reads[i].res = "Err"
              /\ reads[i].msg = <<>>
              /\ Len(reads[i].got) < reads[i].declared

C4_Witness ==
    \E i, j \in 1..Len(reads) :
        /\ reads[i].cause = "closed_payload"
        /\ Len(reads[i].got) >= 1
        /\ reads[j].cause = "timeout_payload"
        /\ Len(reads[j].got) >= 1

----------------------------------------------------------------------------
(* Claims about the stream position, checked under SpecFrames. *)

RECURSIVE Boundary(_, _)
\* Where the k-th complete frame on the stream ends (0: where the first starts).
Boundary(frames, k) ==
    IF k = 0 THEN 0 ELSE Boundary(frames, k - 1) + Len(frames[k].bytes)

\* The stream position at which the i-th call began: nothing reads the stream
\* between two calls.
CallStart(i) == IF i = 1 THEN 0 ELSE rMarks[i - 1]

PayloadOf(frame) == SubSeq(frame, 9, Len(frame))

\* The i-th call took the whole i-th frame and ended where the next begins.
TookFrame(i) ==
    /\ i <= Len(OkSends)
    /\ CallStart(i) = Boundary(OkSends, i - 1)
    /\ rMarks[i] = Boundary(OkSends, i)
    /\ reads[i].got = PayloadOf(OkSends[i].bytes)
    /\ reads[i].declared = Len(reads[i].got)
    /\ reads[i].res = (IF Decode(reads[i].got).ok THEN "Ok" ELSE "Err")
    /\ Decode(reads[i].got).ok => reads[i].msg = Decode(reads[i].got).val

\* C11: a read_message call that read a length prefix L and the L payload bytes
\* has taken exactly 8 + L bytes from the stream, whether the decode succeeded
\* or failed and however many of the L bytes the decoder used; so after a
\* successful read or a decode failure the stream stands at the next frame
\* boundary and the following call reads the next frame sent (on a connection
\* where no earlier call ended in a transport fault).
C11_ConsumesWholeFrame ==
    \A i \in 1..Len(reads) :
        /\ reads[i].decoded => rMarks[i] - CallStart(i) = 8 + reads[i].declared
        /\ (reads[i].decoded /\ NoFaultUpTo(reads, i - 1)) => TookFrame(i)

\* A decode failure on a whole frame, then a frame with a byte the decoder
\* does not use, read from its boundary and returned as a message.
C11_Witness ==
    /\ Len(reads) = 2
    /\ reads[1].cause = "decode"
    /\ reads[1].declared = 2
    /\ rMarks[1] = 10
    /\ reads[2].res = "Ok"
    /\ reads[2].got = <<3, 7, 9>>
    /\ Decode(reads[2].got).next = 2
    /\ rMarks[2] = 21

----------------------------------------------------------------------------
(* Claims about the tree codec, checked under SpecTree. *)

Written == tPc \in {"done", "checked"} /\ via # "none"

\* Every name of the source is valid text.
SrcValid == \A n \in BadNames : NodeAt(fs0, SrcRoot \o <<n>>) = Absent

DstAbsent0 == NodeAt(fs0, DstRoot) = Absent

DstEmpty0 ==
    /\ NodeAt(fs0, DstRoot) = DirNode
    /\ \A q \in RelPaths : q # <<>> => NodeAt(fs0, DstRoot \o q) = Absent

NoWriteFault == \A i \in 1..Len(oplog) : oplog[i][3] # "fault"

\* The same names with the same kind and the same bytes at every level.
SameTree(f, r1, g, r2) == \A q \in RelPaths : NodeAt(f, r1 \o q) = NodeAt(g, r2 \o q)

RoundTripHolds ==
    /\ writeRes = "Ok"
    /\ SameTree(fs, DstRoot, fs0, SrcRoot)
    /\ SameTree(fs, SrcRoot, fs0, SrcRoot)

\* C5 as stated: reading any tree of validly named files and folders and
\* writing it, by to_file or by recursive_write_dir_async, into an absent or
\* empty destination reproduces the tree, in the same sibling order.
C5_RoundTripAsStated ==
    (Written /\ SrcValid /\ NoWriteFault /\ (DstAbsent0 \/ DstEmpty0)) =>
        /\ RoundTripHolds
        /\ tPc = "checked" => tree2 = tree

\* C5 (amended): without I/O faults, to_file into an absent or empty
\* destination, and recursive_write_dir_async into an existing empty one,
\* return Ok and leave a destination with the same names, kinds and bytes at
\* every level as the source; read back, it lists the source's entries in one
\* of the platform's listing orders.  recursive_write_dir_async on an absent
\* destination creates nothing, and fails unless the tree is empty.
C5_RoundTrip ==
    /\ (/\ Written /\ SrcValid /\ NoWriteFault
        /\ \/ via = "to_file" /\ (DstAbsent0 \/ DstEmpty0)
           \/ via = "direct" /\ DstEmpty0)
       => /\ RoundTripHolds
          /\ tPc = "checked" =>
                tree2 \in {ReadDir(fs0, SrcRoot, o, {}).val : o \in Orders}
    /\ (Written /\ via = "direct" /\ DstAbsent0)
       => /\ SameTree(fs, DstRoot, fs0, DstRoot)
          /\ tree # <<>> => writeRes = "Err"

C5_Witness ==
    /\ tPc = "checked"
    /\ via = "to_file"
    /\ DstAbsent0
    /\ SrcValid
    /\ NodeAt(fs, DstRoot \o <<"a", "b">>) = FileNode(<<7>>)
    /\ NodeAt(fs, DstRoot \o <<"a", "a">>) = DirNode
    /\ NodeAt(fs, DstRoot \o <<"b">>) = FileNode(<<>>)
    /\ tree2 # tree

RECURSIVE Replay(_, _)
\* The file system after the successful operations of a log.
Replay(f, log) ==
    IF log = <<>> THEN f
    ELSE Replay(IF Head(log)[3] # "ok" THEN f
                ELSE IF Head(log)[1] = "write"
                THEN [f EXCEPT ![Head(log)[2]] = FileNode(Head(log)[4])]
                ELSE [f EXCEPT ![Head(log)[2]] = DirNode],
                Tail(log))

\* The first failed operation is the last one performed, and what was written
\* before it stays.
AbortsWithoutRollback ==
    /\ readBad # {} => tree = <<>> /\ fs = fs0 /\ via = "none"
    /\ \A i \in 1..Len(oplog) : oplog[i][3] # "ok" => i = Len(oplog)
    /\ fs = Replay(fs0, oplog)

\* C6: any read or write error during traversal or materialization (failing to
\* create the destination root in to_file included) ends the operation at that
\* point and reaches the caller as an error result; nothing further is
\* processed, and what was written before stays.
C6_FailureIsErrorResult ==
    /\ AbortsWithoutRollback
    /\ readBad # {} => readRes = "Err"
    /\ (\E i \in 1..Len(oplog) : oplog[i][3] # "ok") => writeRes = "Err"

\* The part of C6 that the code keeps: an abort at the first failure and no
\* rollback, the failure reaching the caller as Err or as a panic.
C6_AbortNoRollback ==
    /\ AbortsWithoutRollback
    /\ readBad # {} => readRes = "Err"
    /\ (\E i \in 1..Len(oplog) : oplog[i][3] # "ok") => writeRes \in {"Err", "Panic"}

CreatedBefore(i, q) ==
    \E j \in 1..(i - 1) :
        /\ oplog[j][1] \in {"create_dir", "create_dir_all"}
        /\ oplog[j][2] = q
        /\ oplog[j][3] = "ok"

\* Whatever is written into a sub-directory is written after the directory
\* was created.
DirsBeforeChildren ==
    \A i \in 1..Len(oplog) :
        Len(oplog[i][2]) >= 3 => CreatedBefore(i, Parent(oplog[i][2]))

\* On an absent destination the root is created before any entry is written.
RootFirst(entryPoints) ==
    (via \in entryPoints /\ DstAbsent0) =>
        /\ \A i \in 1..Len(oplog) :
              oplog[i][1] \in {"write", "create_dir"} => CreatedBefore(i, DstRoot)
        /\ writeRes = "Ok" => NodeAt(fs, DstRoot) = DirNode

\* C10 as stated: the destination root is created first if it is absent and
\* every directory before its children, through to_file and through a direct
\* call of recursive_write_dir_async alike.
C10_RootAndDirsFirstAsStated ==
    /\ DirsBeforeChildren
    /\ RootFirst({"to_file", "direct"})

\* C10 (amended): through to_file the destination root is created first if it
\* is absent; through either entry point every sub-directory is created before
\* any of its children is written; recursive_write_dir_async called directly
\* never creates its base path, and on an absent base writes nothing.
C10_RootAndDirsFirst ==
    /\ DirsBeforeChildren
    /\ RootFirst({"to_file"})
    /\ via = "direct" =>
          /\ \A i \in 1..Len(oplog) :
                ~(oplog[i][1] \in {"create_dir", "create_dir_all"} /\ oplog[i][2] = DstRoot)
          /\ DstAbsent0 => \A i \in 1..Len(oplog) : oplog[i][3] # "ok"

C10_Witness ==
    /\ Written
    /\ via = "to_file"
    /\ DstAbsent0
    /\ writeRes = "Ok"
    /\ Len(oplog) >= 4
    /\ oplog[1] = <<"create_dir_all", DstRoot, "ok", <<>>>>
    /\ \E i \in 1..Len(oplog) : oplog[i] = <<"write", DstRoot \o <<"b", "a">>, "ok", <<7>>>>

----------------------------------------------------------------------------
(* Claims about the conversions, checked under SpecConv. *)

V3Fields == {"toc_enabled", "csl_style", "csl_language_code"}

\* The fields a V4 value has and a V3 value has not.
NewInV4 == DOMAIN settingsOut \ V3Fields

V3FieldsKept == \A f \in V3Fields : settingsOut[f] = settingsIn[f]

FlagsSet(pl) == {v \in CCVariants : pl[v]}

\* Indicators set: flags that are true, plus the free text when not empty.
Indicators(pl) == Cardinality(FlagsSet(pl)) + (IF pl.other # "" THEN 1 ELSE 0)

\* The flag of the variant alone, or the text of Other alone.
ProjectsVariant ==
    IF licenseIn[1] = "Other"
    THEN FlagsSet(licenseOut) = {} /\ licenseOut.other = licenseIn[2]
    ELSE FlagsSet(licenseOut) = {licenseIn[1]} /\ licenseOut.other = ""

\* C9 as stated: the flag of the variant alone with empty text, or for Other(x)
\* no flag and the text x; and in every result exactly one indicator is set.
C9_LicenseAsStated ==
    Converted(licenseOut) =>
        /\ ProjectsVariant
        /\ Indicators(licenseOut) = 1

\* C9 (amended): the flag of the variant alone with empty text, or for Other(x)
\* no flag and the text x; never more than one indicator is set, and none is
\* set exactly for Other("").
C9_License ==
    Converted(licenseOut) =>
        /\ ProjectsVariant
        /\ Indicators(licenseOut) <= 1
        /\ Indicators(licenseOut) = 0 <=> licenseIn = <<"Other", "">>

C9_Witness ==
    /\ Converted(licenseOut)
    /\ licenseIn = <<"CC_BY_NC_SA_4">>
    /\ licenseOut.CC_BY_NC_SA_4

====
